---------------------------- MODULE Spec2Model ----------------------------
(***************************************************************************)
(* OS-string marshalling of src/shims/os_str.rs: host strings are written  *)
(* to and read from terminator-delimited buffers of simulated memory, as   *)
(* bytes (C strings) or as 16-bit units (wide strings), with path          *)
(* separator conversion for paths.                                         *)
(*                                                                         *)
(* A host string (OsStr) is modelled by its native unit sequence: bytes on *)
(* a Unix host (OsStrExt::as_bytes), 16-bit units on a Windows host        *)
(* (OsStrExt::encode_wide).  A buffer is a sequence of cells, each a unit  *)
(* or Undef; an address is an offset into it.                              *)
(***************************************************************************)
EXTENDS Integers, Sequences, FiniteSets, TLC

VARIABLES host, target_os, width, os_str, memory, op, direction, scalar, size, result

vars == <<host, target_os, width, os_str, memory, op, direction, scalar, size, result>>

(***************************************************************************)
(* Bounds of the model.                                                    *)
(***************************************************************************)
\* longest host string enumerated exhaustively
MaxLen == 2
\* number of cells of the caller's buffer
MemSize == 6
\* largest destination offset tried
MaxAddr == 1

(***************************************************************************)
(* Constants of the program.                                               *)
(***************************************************************************)
\* '/'
Slash == 47
\* '\\'
Backslash == 92
\* a cell of a fresh allocation holds no value
Undef == -1
\* largest value of the length type (u64 in the source; every length the
\* model can build is far below either limit)
LengthMax == 2147483647

Hosts == {"unix", "windows"}

TargetOSes == {"linux", "windows"}

BoundedSeq(S, n) == UNION {[1..k -> S] : k \in 0..n}

\* "h\u{e9}llo" as UTF-8: 6 bytes, 5 scalar values
hello == <<104, 195, 169, 108, 108, 111>>

\* the path a/b/c
abc_path == <<97, Slash, 98, Slash, 99>>

\* bytes: NUL, 'a', and the two bytes of U+00E9 (each invalid on its own)
ByteUnits == {0, 97, 195, 169}

\* 16-bit units: NUL, 'a', and the surrogate pair of U+1F600
WideUnits == {0, 97, 55357, 56832}

PathUnits == {0, 97, Slash, Backslash}

\* the host strings handed to the string operations
HostStrings(h) ==
    IF h = "unix" THEN BoundedSeq(ByteUnits, MaxLen) \cup {hello}
    ELSE BoundedSeq(WideUnits, MaxLen)

\* the host paths handed to the path operations
HostPaths == BoundedSeq(PathUnits, MaxLen) \cup {abc_path}

(***************************************************************************)
(* Unicode conversions of the standard library, as they compute.           *)
(***************************************************************************)
Fail == [ok |-> FALSE, val |-> <<>>]

Succeed(v) == [ok |-> TRUE, val |-> v]

IsHighSurrogate(u) == u >= 55296 /\ u <= 56319

IsLowSurrogate(u) == u >= 56320 /\ u <= 57343

IsContinuation(b) == b >= 128 /\ b <= 191

\* str::from_utf8: the scalar values of a byte sequence, or failure
RECURSIVE decode_utf8(_)
decode_utf8(b) ==
    IF b = <<>> THEN Succeed(<<>>)
    ELSE LET b1 == b[1]
             n == IF b1 < 128 THEN 1
                  ELSE IF b1 >= 194 /\ b1 <= 223 THEN 2
                  ELSE IF b1 >= 224 /\ b1 <= 239 THEN 3
                  ELSE IF b1 >= 240 /\ b1 <= 244 THEN 4
                  ELSE 0
             wellFormed ==
                  /\ n > 0
                  /\ Len(b) >= n
                  /\ \A i \in 2..n : IsContinuation(b[i])
                  /\ b1 = 224 => b[2] >= 160
                  /\ b1 = 237 => b[2] <= 159
                  /\ b1 = 240 => b[2] >= 144
                  /\ b1 = 244 => b[2] <= 143
             ch == IF n = 1 THEN b1
                   ELSE IF n = 2 THEN (b1 - 192) * 64 + (b[2] - 128)
                   ELSE IF n = 3 THEN (b1 - 224) * 4096 + (b[2] - 128) * 64 + (b[3] - 128)
                   ELSE (b1 - 240) * 262144 + (b[2] - 128) * 4096
                        + (b[3] - 128) * 64 + (b[4] - 128)
         IN  IF ~wellFormed THEN Fail
             ELSE LET r == decode_utf8(SubSeq(b, n + 1, Len(b)))
                  IN  IF r.ok THEN Succeed(<<ch>> \o r.val) ELSE Fail

\* the UTF-8 bytes of one scalar value
utf8_of_char(c) ==
    IF c < 128 THEN <<c>>
    ELSE IF c < 2048 THEN <<192 + (c \div 64), 128 + (c % 64)>>
    ELSE IF c < 65536 THEN
        <<224 + (c \div 4096), 128 + ((c \div 64) % 64), 128 + (c % 64)>>
    ELSE <<240 + (c \div 262144), 128 + ((c \div 4096) % 64),
           128 + ((c \div 64) % 64), 128 + (c % 64)>>

\* str::as_bytes of a String built from scalar values
RECURSIVE encode_utf8(_)
encode_utf8(chars) ==
    IF chars = <<>> THEN <<>>
    ELSE utf8_of_char(Head(chars)) \o encode_utf8(Tail(chars))

\* String::from_utf16: the scalar values of a unit sequence, or failure on
\* an unpaired surrogate
RECURSIVE decode_utf16(_)
decode_utf16(v) ==
    IF v = <<>> THEN Succeed(<<>>)
    ELSE LET u == Head(v)
         IN  IF IsHighSurrogate(u) THEN
                 IF Len(v) >= 2 /\ IsLowSurrogate(v[2]) THEN
                     LET r == decode_utf16(Tail(Tail(v)))
                         ch == 65536 + (u - 55296) * 1024 + (v[2] - 56320)
                     IN  IF r.ok THEN Succeed(<<ch>> \o r.val) ELSE Fail
                 ELSE Fail
             ELSE IF IsLowSurrogate(u) THEN Fail
             ELSE LET r == decode_utf16(Tail(v))
                  IN  IF r.ok THEN Succeed(<<u>> \o r.val) ELSE Fail

\* str::encode_utf16
RECURSIVE encode_utf16(_)
encode_utf16(chars) ==
    IF chars = <<>> THEN <<>>
    ELSE LET c == Head(chars)
             units == IF c < 65536 THEN <<c>>
                      ELSE <<55296 + ((c - 65536) \div 1024),
                             56320 + ((c - 65536) % 1024)>>
         IN  units \o encode_utf16(Tail(chars))

\* length in bytes of the WTF-8 buffer behind a Windows OsStr: a surrogate
\* pair is one 4-byte scalar, an unpaired surrogate takes 3 bytes
RECURSIVE wtf8_len(_)
wtf8_len(v) ==
    IF v = <<>> THEN 0
    ELSE LET u == Head(v)
         IN  IF IsHighSurrogate(u) /\ Len(v) >= 2 /\ IsLowSurrogate(v[2])
             THEN 4 + wtf8_len(Tail(Tail(v)))
             ELSE Len(utf8_of_char(u)) + wtf8_len(Tail(v))

\* OsStr::len: the length of the host's internal byte buffer
os_str_len(os) == IF host = "unix" THEN Len(os) ELSE wtf8_len(os)

\* OsStr::to_str: the scalar values, when the host string is valid Unicode
to_str(os) == IF host = "unix" THEN decode_utf8(os) ELSE decode_utf16(os)

\* the host string holding the given text (OsStr::new, String::into)
os_str_of_chars(chars) ==
    IF host = "unix" THEN encode_utf8(chars) ELSE encode_utf16(chars)

(***************************************************************************)
(* The memory subsystem, as the operations use it.                         *)
(***************************************************************************)
\* a fresh allocation of n cells
allocate(n) == [i \in 1..n |-> Undef]

\* Memory::read_c_str / read_wide_str: the units from offset a up to the
\* first zero unit; an undefined or out-of-bounds cell is a memory error
RECURSIVE read_until_terminator(_, _)
read_until_terminator(m, a) ==
    IF a >= Len(m) \/ m[a + 1] = Undef THEN Fail
    ELSE IF m[a + 1] = 0 THEN Succeed(<<>>)
    ELSE LET r == read_until_terminator(m, a + 1)
         IN  IF r.ok THEN Succeed(<<m[a + 1]>> \o r.val) ELSE Fail

\* Memory::write_bytes / write_u16s: the whole range is checked first, then
\* every unit is stored
write_units(m, a, units) ==
    IF a + Len(units) > Len(m) THEN [ok |-> FALSE, mem |-> m]
    ELSE [ok |-> TRUE,
          mem |-> [i \in 1..Len(m) |->
                      IF i > a /\ i <= a + Len(units) THEN units[i - a] ELSE m[i]]]

(***************************************************************************)
(* Results: InterpResult<(bool, u64)> of the writes, InterpResult<OsString>*)
(* of the reads.  kind is "Ok", "Unsupported" (err_unsup_format),          *)
(* "MemoryError" (propagated by ?), or a panic of the allocation helpers.  *)
(***************************************************************************)
Res(kind, flag, len, val) == [kind |-> kind, flag |-> flag, len |-> len, val |-> val]

NoResult == Res("None", FALSE, 0, <<>>)

Unsupported == Res("Unsupported", FALSE, 0, <<>>)

MemoryError == Res("MemoryError", FALSE, 0, <<>>)

\* Ok((written, string_length))
Transfer(written, string_length) == Res("Ok", written, string_length, <<>>)

\* Ok(os_string)
Value(os) == Res("Ok", FALSE, 0, os)

(***************************************************************************)
(* String codec.                                                           *)
(***************************************************************************)
\* bytes of a host string; off Unix the string must be valid Unicode
os_str_to_bytes(os) ==
    IF host = "unix" THEN Succeed(os)
    ELSE LET s == to_str(os)
         IN  IF s.ok THEN Succeed(encode_utf8(s.val)) ELSE Fail

\* host string of a byte sequence; off Unix the bytes must be valid UTF-8
bytes_to_os_str(bytes) ==
    IF host = "unix" THEN Succeed(bytes)
    ELSE LET s == decode_utf8(bytes)
         IN  IF s.ok THEN Succeed(os_str_of_chars(s.val)) ELSE Fail

\* 16-bit units of a host string; off Windows the string must be valid UTF-8
os_str_to_u16vec(os) ==
    IF host = "windows" THEN Succeed(os)
    ELSE LET s == to_str(os)
         IN  IF s.ok THEN Succeed(encode_utf16(s.val)) ELSE Fail

\* host string of a unit sequence; off Windows the units must be valid UTF-16
u16vec_to_osstring(u16_vec) ==
    IF host = "windows" THEN Succeed(u16_vec)
    ELSE LET s == decode_utf16(u16_vec)
         IN  IF s.ok THEN Succeed(os_str_of_chars(s.val)) ELSE Fail

(***************************************************************************)
(* Path separator conversion.                                              *)
(***************************************************************************)
\* every unit equal to from becomes to
replace_unit(os, from, to) ==
    [i \in 1..Len(os) |-> IF os[i] = from THEN to ELSE os[i]]

\* faulty variant: the direction is ignored
convert_path_separator_one_way(os, target, dir) ==
    IF host = "windows" THEN
        IF target = "windows" THEN os ELSE replace_unit(os, Backslash, Slash)
    ELSE
        IF target = "windows" THEN replace_unit(os, Slash, Backslash) ELSE os

convert_path_separator(os, target, dir) ==
    IF host = "windows" THEN
        IF target = "windows" THEN os
        ELSE IF dir = "HostToTarget" THEN replace_unit(os, Backslash, Slash)
             ELSE replace_unit(os, Slash, Backslash)
    ELSE
        IF target = "windows" THEN
            IF dir = "HostToTarget" THEN replace_unit(os, Slash, Backslash)
            ELSE replace_unit(os, Backslash, Slash)
        ELSE os

(***************************************************************************)
(* Reads.  Each yields [res, mem]; a read leaves memory as it is.          *)
(***************************************************************************)
read_os_str_from_c_str(m, a) ==
    LET bytes == read_until_terminator(m, a)
    IN  IF ~bytes.ok THEN [res |-> MemoryError, mem |-> m]
        ELSE LET os == bytes_to_os_str(bytes.val)
             IN  [res |-> IF os.ok THEN Value(os.val) ELSE Unsupported, mem |-> m]

read_os_str_from_wide_str(m, a) ==
    LET u16_vec == read_until_terminator(m, a)
    IN  IF ~u16_vec.ok THEN [res |-> MemoryError, mem |-> m]
        ELSE LET os == u16vec_to_osstring(u16_vec.val)
             IN  [res |-> IF os.ok THEN Value(os.val) ELSE Unsupported, mem |-> m]

(***************************************************************************)
(* Writes.                                                                 *)
(***************************************************************************)
\* faulty variant: a string exactly as long as the capacity is let through
write_os_str_to_c_str_off_by_one(os, m, a, sz) ==
    LET bytes == os_str_to_bytes(os)
    IN  IF ~bytes.ok THEN [res |-> Unsupported, mem |-> m]
        ELSE LET string_length == Len(bytes.val)
                 w == write_units(m, a, bytes.val \o <<0>>)
             IN  IF sz < string_length THEN
                     [res |-> Transfer(FALSE, string_length), mem |-> m]
                 ELSE IF ~w.ok THEN [res |-> MemoryError, mem |-> m]
                 ELSE [res |-> Transfer(TRUE, string_length), mem |-> w.mem]

\* faulty variant: the terminator is not written
write_os_str_to_c_str_no_terminator(os, m, a, sz) ==
    LET bytes == os_str_to_bytes(os)
    IN  IF ~bytes.ok THEN [res |-> Unsupported, mem |-> m]
        ELSE LET string_length == Len(bytes.val)
                 w == write_units(m, a, bytes.val)
             IN  IF sz <= string_length THEN
                     [res |-> Transfer(FALSE, string_length), mem |-> m]
                 ELSE IF ~w.ok THEN [res |-> MemoryError, mem |-> m]
                 ELSE [res |-> Transfer(TRUE, string_length), mem |-> w.mem]

write_os_str_to_c_str(os, m, a, sz) ==
    LET bytes == os_str_to_bytes(os)
    IN  IF ~bytes.ok THEN [res |-> Unsupported, mem |-> m]
        ELSE LET string_length == Len(bytes.val)
                 w == write_units(m, a, bytes.val \o <<0>>)
             IN  IF sz <= string_length THEN
                     [res |-> Transfer(FALSE, string_length), mem |-> m]
                 ELSE IF ~w.ok THEN [res |-> MemoryError, mem |-> m]
                 ELSE [res |-> Transfer(TRUE, string_length), mem |-> w.mem]

\* faulty variant: when the capacity is too small, what fits is written
write_os_str_to_wide_str_truncating(os, m, a, sz) ==
    LET u16_vec == os_str_to_u16vec(os)
    IN  IF ~u16_vec.ok THEN [res |-> Unsupported, mem |-> m]
        ELSE LET string_length == Len(u16_vec.val)
                 w == write_units(m, a, u16_vec.val \o <<0>>)
                 part == write_units(m, a, SubSeq(u16_vec.val, 1, sz))
             IN  IF sz <= string_length THEN
                     [res |-> Transfer(FALSE, string_length), mem |-> part.mem]
                 ELSE IF ~w.ok THEN [res |-> MemoryError, mem |-> m]
                 ELSE [res |-> Transfer(TRUE, string_length), mem |-> w.mem]

\* faulty variant: the capacity is compared with the host length before the
\* string is encoded
write_os_str_to_wide_str_size_first(os, m, a, sz) ==
    LET u16_vec == os_str_to_u16vec(os)
    IN  IF sz <= Len(os) THEN [res |-> Transfer(FALSE, Len(os)), mem |-> m]
        ELSE IF ~u16_vec.ok THEN [res |-> Unsupported, mem |-> m]
        ELSE LET string_length == Len(u16_vec.val)
                 w == write_units(m, a, u16_vec.val \o <<0>>)
             IN  IF ~w.ok THEN [res |-> MemoryError, mem |-> m]
                 ELSE [res |-> Transfer(TRUE, string_length), mem |-> w.mem]

write_os_str_to_wide_str(os, m, a, sz) ==
    LET u16_vec == os_str_to_u16vec(os)
    IN  IF ~u16_vec.ok THEN [res |-> Unsupported, mem |-> m]
        ELSE LET string_length == Len(u16_vec.val)
                 w == write_units(m, a, u16_vec.val \o <<0>>)
             IN  IF sz <= string_length THEN
                     [res |-> Transfer(FALSE, string_length), mem |-> m]
                 ELSE IF ~w.ok THEN [res |-> MemoryError, mem |-> m]
                 ELSE [res |-> Transfer(TRUE, string_length), mem |-> w.mem]

(***************************************************************************)
(* Allocation helpers.  Each yields [res, mem, size]: the outcome (the     *)
(* internal write's result, or the panic that ended the call), the fresh   *)
(* region, and the capacity it was given.                                  *)
(***************************************************************************)
\* faulty variant: no room for the terminator
alloc_size_no_terminator(os) == os_str_len(os)

\* faulty variant: one unit more than needed
alloc_size_one_more(os) == os_str_len(os) + 2

\* the capacity: the host length plus one, past the overflow check
alloc_size(os) == os_str_len(os) + 1

alloc_os_str_as_c_str(os, m) ==
    IF os_str_len(os) >= LengthMax THEN
        [res |-> Res("PanicOverflow", FALSE, 0, <<>>), mem |-> m, size |-> 0]
    ELSE LET sz == alloc_size(os)
             arg_place == allocate(sz)
             w == write_os_str_to_c_str(os, arg_place, 0, sz)
         IN  IF w.res.kind # "Ok" THEN
                 [res |-> Res("PanicUnwrap", FALSE, 0, <<>>), mem |-> arg_place, size |-> sz]
             ELSE IF ~w.res.flag THEN
                 [res |-> Res("PanicAssert", FALSE, w.res.len, <<>>),
                  mem |-> arg_place, size |-> sz]
             ELSE [res |-> w.res, mem |-> w.mem, size |-> sz]

alloc_os_str_as_wide_str(os, m) ==
    IF os_str_len(os) >= LengthMax THEN
        [res |-> Res("PanicOverflow", FALSE, 0, <<>>), mem |-> m, size |-> 0]
    ELSE LET sz == alloc_size(os)
             arg_place == allocate(sz)
             w == write_os_str_to_wide_str(os, arg_place, 0, sz)
         IN  IF w.res.kind # "Ok" THEN
                 [res |-> Res("PanicUnwrap", FALSE, 0, <<>>), mem |-> arg_place, size |-> sz]
             ELSE IF ~w.res.flag THEN
                 [res |-> Res("PanicAssert", FALSE, w.res.len, <<>>),
                  mem |-> arg_place, size |-> sz]
             ELSE [res |-> w.res, mem |-> w.mem, size |-> sz]

(***************************************************************************)
(* Path operations.                                                        *)
(***************************************************************************)
\* faulty variant: the read converts in the write's direction
read_path_from_c_str_wrong_direction(m, a) ==
    LET r == read_os_str_from_c_str(m, a)
    IN  IF r.res.kind # "Ok" THEN r
        ELSE [res |-> Value(convert_path_separator(r.res.val, target_os, "HostToTarget")),
              mem |-> m]

read_path_from_c_str(m, a) ==
    LET r == read_os_str_from_c_str(m, a)
    IN  IF r.res.kind # "Ok" THEN r
        ELSE [res |-> Value(convert_path_separator(r.res.val, target_os, "TargetToHost")),
              mem |-> m]

read_path_from_wide_str(m, a) ==
    LET r == read_os_str_from_wide_str(m, a)
    IN  IF r.res.kind # "Ok" THEN r
        ELSE [res |-> Value(convert_path_separator(r.res.val, target_os, "TargetToHost")),
              mem |-> m]

\* faulty variant: the path is written without separator conversion
write_path_to_c_str_unconverted(path, m, a, sz) ==
    write_os_str_to_c_str(path, m, a, sz)

write_path_to_c_str(path, m, a, sz) ==
    write_os_str_to_c_str(convert_path_separator(path, target_os, "HostToTarget"), m, a, sz)

write_path_to_wide_str(path, m, a, sz) ==
    write_os_str_to_wide_str(convert_path_separator(path, target_os, "HostToTarget"), m, a, sz)

(***************************************************************************)
(* State machine.  host, target_os and the host string os_str are fixed    *)
(* for a run; memory is the buffer the calls address, width its unit       *)
(* width; op, direction, scalar, size and result record the last call.     *)
(***************************************************************************)
Addrs == 0..MaxAddr

\* capacities a caller may declare; from an offset above zero the largest
\* exceed what the buffer holds
Sizes == 0..MemSize

NoCall ==
    /\ op = "init"
    /\ direction = "none"
    /\ scalar = 0
    /\ size = 0
    /\ result = NoResult

Return(name, dir, a, sz, r) ==
    /\ op' = name
    /\ direction' = dir
    /\ scalar' = a
    /\ size' = sz
    /\ result' = r.res
    /\ memory' = r.mem
    /\ UNCHANGED <<host, target_os, os_str>>

\* content the interpreted program may have left in the buffer
GuestStrings(w) ==
    BoundedSeq((IF w = 8 THEN ByteUnits ELSE WideUnits) \ {0}, MaxLen)

GuestMemory(g) ==
    [i \in 1..MemSize |->
        IF i <= Len(g) THEN g[i] ELSE IF i = Len(g) + 1 THEN 0 ELSE Undef]

Init ==
    /\ host \in Hosts
    /\ target_os = "linux"
    /\ width \in {8, 16}
    /\ \/ /\ os_str \in HostStrings(host)
          /\ memory = allocate(MemSize)
       \/ /\ os_str = <<>>
          /\ \E g \in GuestStrings(width) : memory = GuestMemory(g)
    /\ NoCall

WriteOsStrToCStr ==
    \E a \in Addrs, sz \in Sizes :
        /\ width = 8
        /\ Return("write_os_str_to_c_str", "none", a, sz,
                  write_os_str_to_c_str(os_str, memory, a, sz))
        /\ UNCHANGED width

WriteOsStrToWideStr ==
    \E a \in Addrs, sz \in Sizes :
        /\ width = 16
        /\ Return("write_os_str_to_wide_str", "none", a, sz,
                  write_os_str_to_wide_str(os_str, memory, a, sz))
        /\ UNCHANGED width

ReadOsStrFromCStr ==
    \E a \in Addrs :
        /\ width = 8
        /\ Return("read_os_str_from_c_str", "none", a, 0,
                  read_os_str_from_c_str(memory, a))
        /\ UNCHANGED width

ReadOsStrFromWideStr ==
    \E a \in Addrs :
        /\ width = 16
        /\ Return("read_os_str_from_wide_str", "none", a, 0,
                  read_os_str_from_wide_str(memory, a))
        /\ UNCHANGED width

Next ==
    \/ WriteOsStrToCStr
    \/ WriteOsStrToWideStr
    \/ ReadOsStrFromCStr
    \/ ReadOsStrFromWideStr

Spec == Init /\ [][Next]_vars

(***************************************************************************)
(* Paths: the path operations and the separator conversion on its own.     *)
(***************************************************************************)
InitPath ==
    /\ host \in Hosts
    /\ target_os \in TargetOSes
    /\ width \in {8, 16}
    /\ os_str \in HostPaths
    /\ memory = allocate(MemSize)
    /\ NoCall

ConvertPathSeparator ==
    \E dir \in {"HostToTarget", "TargetToHost"} :
        /\ Return("convert_path_separator", dir, 0, 0,
                  [res |-> Value(convert_path_separator(os_str, target_os, dir)),
                   mem |-> memory])
        /\ UNCHANGED width

WritePathToCStr ==
    \E a \in Addrs, sz \in Sizes :
        /\ width = 8
        /\ Return("write_path_to_c_str", "HostToTarget", a, sz,
                  write_path_to_c_str(os_str, memory, a, sz))
        /\ UNCHANGED width

WritePathToWideStr ==
    \E a \in Addrs, sz \in Sizes :
        /\ width = 16
        /\ Return("write_path_to_wide_str", "HostToTarget", a, sz,
                  write_path_to_wide_str(os_str, memory, a, sz))
        /\ UNCHANGED width

ReadPathFromCStr ==
    \E a \in Addrs :
        /\ width = 8
        /\ Return("read_path_from_c_str", "TargetToHost", a, 0,
                  read_path_from_c_str(memory, a))
        /\ UNCHANGED width

ReadPathFromWideStr ==
    \E a \in Addrs :
        /\ width = 16
        /\ Return("read_path_from_wide_str", "TargetToHost", a, 0,
                  read_path_from_wide_str(memory, a))
        /\ UNCHANGED width

NextPath ==
    \/ ConvertPathSeparator
    \/ WritePathToCStr
    \/ WritePathToWideStr
    \/ ReadPathFromCStr
    \/ ReadPathFromWideStr

SpecPath == InitPath /\ [][NextPath]_vars

(***************************************************************************)
(* Allocation: each call allocates its own region, which becomes the       *)
(* buffer of the model.                                                    *)
(***************************************************************************)
InitAlloc ==
    /\ host \in Hosts
    /\ target_os = "linux"
    /\ width = 8
    /\ os_str \in HostStrings(host)
    /\ memory = <<>>
    /\ NoCall

AllocOsStrAsCStr ==
    LET r == alloc_os_str_as_c_str(os_str, memory)
    IN  /\ Return("alloc_os_str_as_c_str", "none", 0, r.size, r)
        /\ width' = 8

AllocOsStrAsWideStr ==
    LET r == alloc_os_str_as_wide_str(os_str, memory)
    IN  /\ Return("alloc_os_str_as_wide_str", "none", 0, r.size, r)
        /\ width' = 16

NextAlloc ==
    \/ AllocOsStrAsCStr
    \/ AllocOsStrAsWideStr

SpecAlloc == InitAlloc /\ [][NextAlloc]_vars

(***************************************************************************)
(* Properties.                                                             *)
(***************************************************************************)
WriteOps == {"write_os_str_to_c_str", "write_os_str_to_wide_str"}

AllocOps == {"alloc_os_str_as_c_str", "alloc_os_str_as_wide_str"}

\* the target units of a host string for the encoding an operation uses
EncodedFor(o, os) ==
    IF o \in {"write_os_str_to_c_str", "alloc_os_str_as_c_str"}
    THEN os_str_to_bytes(os) ELSE os_str_to_u16vec(os)

\* buffer m with the given units laid down from offset a
Overlaid(m, a, units) ==
    [i \in 1..Len(m) |-> IF a < i /\ i <= a + Len(units) THEN units[i - a] ELSE m[i]]

NoUnit(os, u) == \A i \in 1..Len(os) : os[i] # u

HostSeparator == IF host = "unix" THEN Slash ELSE Backslash

TargetSeparator == IF target_os = "windows" THEN Backslash ELSE Slash

\* the separator of the convention the host does not use
OppositeSeparator == IF host = "unix" THEN Backslash ELSE Slash

\* C1: a write of a string that encodes to L units returns (false, L) and
\* writes nothing when size <= L; otherwise, the destination holding size
\* units, it returns (true, L), and whenever it returns Ok it has written
\* exactly the L units and one zero unit, L + 1 <= size cells, and nothing
\* else.  Checked on every step that is a write.
C1_WriteStep ==
    (op' \in WriteOps /\ EncodedFor(op', os_str).ok) =>
        LET content == EncodedFor(op', os_str).val
            L == Len(content)
        IN  /\ size' <= L =>
                /\ result' = Transfer(FALSE, L)
                /\ memory' = memory
            /\ (size' > L /\ scalar' + size' <= Len(memory)) =>
                result' = Transfer(TRUE, L)
            /\ (size' > L /\ result'.kind = "Ok") =>
                /\ result' = Transfer(TRUE, L)
                /\ L + 1 <= size'
                /\ memory' = Overlaid(memory, scalar', content \o <<0>>)
                /\ memory'[scalar' + L + 1] = 0

C1_WriteContract == [][C1_WriteStep]_vars

\* C1 witness: a byte write of a two-unit-or-longer string into a capacity
\* of exactly L + 1 succeeded and the terminator follows the content
C1_Witness ==
    /\ op = "write_os_str_to_c_str"
    /\ result.kind = "Ok" /\ result.flag
    /\ result.len >= 2
    /\ size = result.len + 1
    /\ memory[scalar + result.len + 1] = 0

\* C2: probe-then-commit.  A write with size <= L leaves memory as it was
\* and returns (false, L); every write leaves memory either untouched or
\* holding the whole content and terminator; and a write that follows a
\* probe, at the same address, with the length the probe reported plus one,
\* returns (true, that length) when the destination holds that many units.
C2_ProbeStep ==
    (op' \in WriteOps /\ EncodedFor(op', os_str).ok) =>
        LET content == EncodedFor(op', os_str).val
            L == Len(content)
        IN  /\ size' <= L => (memory' = memory /\ result' = Transfer(FALSE, L))
            /\ \/ memory' = memory
               \/ memory' = Overlaid(memory, scalar', content \o <<0>>)
            /\ ( /\ op = op'
                 /\ result.kind = "Ok" /\ ~result.flag
                 /\ scalar' = scalar
                 /\ size' = result.len + 1
                 /\ scalar' + size' <= Len(memory) ) =>
                /\ result' = Transfer(TRUE, result.len)
                /\ memory' = Overlaid(memory, scalar', content \o <<0>>)

C2_ProbeThenCommit == [][C2_ProbeStep]_vars

\* C2 witness: a probe of a non-empty string was answered TooSmall and the
\* buffer is still entirely unwritten
C2_Witness ==
    /\ op = "write_os_str_to_wide_str"
    /\ result.kind = "Ok" /\ ~result.flag
    /\ result.len >= 1
    /\ size >= 1
    /\ memory = allocate(MemSize)

\* the write and read of the host's native encoding
NativeWrite == IF host = "unix" THEN "write_os_str_to_c_str" ELSE "write_os_str_to_wide_str"

NativeRead == IF host = "unix" THEN "read_os_str_from_c_str" ELSE "read_os_str_from_wide_str"

\* a successful native write with capacity len(s) + 1 is followed by the
\* matching read at the same address
RoundTripStep ==
    /\ op = NativeWrite
    /\ result.kind = "Ok" /\ result.flag
    /\ size = Len(os_str) + 1
    /\ op' = NativeRead
    /\ scalar' = scalar

\* C3 as stated: the native round trip yields s for every host string s,
\* whatever units it contains.
C3_RoundTripAnyString ==
    [][RoundTripStep => (result' = Value(os_str) /\ Len(result'.val) = result.len)]_vars

\* C3 amended: the native round trip yields s, of the reported length, for
\* every host string s that contains no zero unit.
C3_RoundTripNoZero ==
    [][(RoundTripStep /\ NoUnit(os_str, 0)) =>
          (result' = Value(os_str) /\ Len(result'.val) = result.len)]_vars

\* C3 witness: on a Unix host a string of two or more bytes was read back
\* from the buffer, which holds it followed by the terminator
C3_Witness ==
    /\ host = "unix"
    /\ op = "read_os_str_from_c_str"
    /\ Len(os_str) >= 2
    /\ result = Value(os_str)
    /\ memory[scalar + Len(os_str) + 1] = 0

\* number of UTF-16 units of a text: one per scalar value, two beyond the
\* basic plane
Utf16Units(chars) == Len(chars) + Cardinality({i \in 1..Len(chars) : chars[i] >= 65536})

\* C7: on a byte-oriented host, a wide write of a string that is not valid
\* UTF-8 fails with InvalidEncoding for every capacity and leaves memory
\* unchanged; a wide read of units that are not valid UTF-16 fails with
\* InvalidEncoding; and a wide write of valid text reports the number of
\* UTF-16 units, succeeding when the capacity exceeds it (the 6 bytes of
\* "h\u{e9}llo" report Written(5)).
C7_Step ==
    host = "unix" =>
        /\ (op' = "write_os_str_to_wide_str" /\ ~decode_utf8(os_str).ok) =>
              (result' = Unsupported /\ memory' = memory)
        /\ (op' = "write_os_str_to_wide_str" /\ decode_utf8(os_str).ok) =>
              LET n == Utf16Units(decode_utf8(os_str).val)
              IN  /\ result'.kind \in {"Ok", "MemoryError"}
                  /\ result'.kind = "Ok" => result' = Transfer(size' > n, n)
                  /\ (size' > n /\ scalar' + size' <= Len(memory)) =>
                        result' = Transfer(TRUE, n)
        /\ (op' = "write_os_str_to_wide_str" /\ os_str = hello /\ size' = 6
                /\ scalar' + size' <= Len(memory)) =>
              result' = Transfer(TRUE, 5)
        /\ ( /\ op' = "read_os_str_from_wide_str"
             /\ read_until_terminator(memory, scalar').ok
             /\ ~decode_utf16(read_until_terminator(memory, scalar').val).ok ) =>
              (result' = Unsupported /\ memory' = memory)

C7_InvalidEncoding == [][C7_Step]_vars

\* C7 witness: on a Unix host a string that is not valid UTF-8 was offered
\* to a wide buffer with a capacity no larger than its length, and the call
\* failed with InvalidEncoding
C7_Witness ==
    /\ host = "unix"
    /\ op = "write_os_str_to_wide_str"
    /\ ~decode_utf8(os_str).ok
    /\ size <= Len(os_str)
    /\ result = Unsupported

\* host and target use the same separator
SameConvention == HostSeparator = TargetSeparator

\* the separator a conversion replaces, and the one it puts in its place
SourceSeparator == IF direction = "HostToTarget" THEN HostSeparator ELSE TargetSeparator

DestinationSeparator == IF direction = "HostToTarget" THEN TargetSeparator ELSE HostSeparator

\* C8: convert_path_separator returns its input when host and target share
\* a convention; otherwise the output has the input's length, every unit
\* equal to the direction's source separator is the destination separator,
\* and every other unit is unchanged in place.
C8_SeparatorSubstitution ==
    op = "convert_path_separator" =>
        /\ result.kind = "Ok"
        /\ IF SameConvention THEN result.val = os_str
           ELSE /\ Len(result.val) = Len(os_str)
                /\ \A i \in 1..Len(os_str) :
                      IF os_str[i] = SourceSeparator
                      THEN result.val[i] = DestinationSeparator
                      ELSE result.val[i] = os_str[i]

\* C8 witness: a target-to-host conversion under differing conventions of
\* a path holding the target's separator and another unit
C8_Witness ==
    /\ op = "convert_path_separator"
    /\ direction = "TargetToHost"
    /\ ~SameConvention
    /\ \E i \in 1..Len(os_str) : os_str[i] = TargetSeparator
    /\ \E i \in 1..Len(os_str) : os_str[i] # TargetSeparator
    /\ result.val # os_str

\* a successful byte write of the path is followed by a byte read of a path
\* at the same address
PathRoundTripStep ==
    /\ op = "write_path_to_c_str"
    /\ result.kind = "Ok" /\ result.flag
    /\ op' = "read_path_from_c_str"
    /\ scalar' = scalar

\* the length a path write reports is the length of the unconverted path
PathLengthStep ==
    (op' = "write_path_to_c_str" /\ result'.kind = "Ok") => result'.len = os_str_len(os_str)

\* C9 as stated: every path without the opposite separator survives the
\* write and read back, and the write reports the unconverted path's length.
C9_PathRoundTripAnyPath ==
    [][ /\ (PathRoundTripStep /\ NoUnit(os_str, OppositeSeparator)) =>
              result' = Value(os_str)
        /\ PathLengthStep ]_vars

\* C9 amended: every path with neither the opposite separator nor a zero
\* unit survives the write and read back, under matching and differing
\* conventions, and the write reports the unconverted path's length.
C9_PathRoundTripNoZero ==
    [][ /\ ( /\ PathRoundTripStep
             /\ NoUnit(os_str, OppositeSeparator)
             /\ NoUnit(os_str, 0) ) =>
              result' = Value(os_str)
        /\ PathLengthStep ]_vars

\* C9 witness: under differing conventions a path holding the host's
\* separator was read back whole from a buffer holding the target's
C9_Witness ==
    /\ op = "read_path_from_c_str"
    /\ ~SameConvention
    /\ \E i \in 1..Len(os_str) : os_str[i] = HostSeparator
    /\ \E i \in 1..Len(memory) : memory[i] = TargetSeparator
    /\ NoUnit(memory, HostSeparator)
    /\ result = Value(os_str)

\* the scenario: Unix host, Windows target, the path a/b/c written as a
\* path to a byte buffer that holds the declared capacity
Scenario(capacity) ==
    /\ host = "unix"
    /\ target_os = "windows"
    /\ os_str = abc_path
    /\ op = "write_path_to_c_str"
    /\ size = capacity
    /\ scalar + capacity <= Len(memory)

\* C10 as stated: with capacity 6 the write yields TooSmall(5).
C10_Capacity6TooSmall == Scenario(6) => result = Transfer(FALSE, 5)

\* C10 amended: with capacity 6 the write yields Written(5) and the buffer
\* holds a\b\c and the terminator; TooSmall(5) is the answer to capacity 5.
C10_Capacity6Written ==
    /\ Scenario(6) =>
          /\ result = Transfer(TRUE, 5)
          /\ SubSeq(memory, scalar + 1, scalar + 6) = <<97, Backslash, 98, Backslash, 99, 0>>
    /\ Scenario(5) => result = Transfer(FALSE, 5)

\* C10 witness: the scenario's write with capacity 6 has returned
C10_Witness == Scenario(6) /\ result.flag /\ result.len = 5

\* C4: an allocating operation given a string that encodes to L units
\* computes a capacity greater than L, its write returns (true, L), and it
\* does not panic; the region holds the content and the terminator.
C4_AllocNeverTooSmall ==
    (op \in AllocOps /\ EncodedFor(op, os_str).ok) =>
        LET content == EncodedFor(op, os_str).val
        IN  /\ size > Len(content)
            /\ result = Transfer(TRUE, Len(content))
            /\ Len(memory) = size
            /\ SubSeq(memory, 1, Len(content) + 1) = content \o <<0>>

\* C4 witness: a wide allocation of a non-empty string has succeeded
C4_Witness ==
    /\ op = "alloc_os_str_as_wide_str"
    /\ result.kind = "Ok" /\ result.flag
    /\ result.len >= 1
    /\ memory[result.len + 1] = 0

\* C5 as stated: the region of either allocating operation holds exactly
\* (encoded content units) + 1 units.
C5_ExactCapacity ==
    (op \in AllocOps /\ result.kind = "Ok") => Len(memory) = result.len + 1

\* C5 amended: a byte allocation holds exactly (content bytes) + 1 units; a
\* wide allocation holds (length of the host string in bytes) + 1 units,
\* which is at least (content units) + 1 and equal to it exactly when every
\* unit of the content is ASCII.
C5_CapacityAtLeast ==
    (op \in AllocOps /\ result.kind = "Ok") =>
        LET content == EncodedFor(op, os_str).val
        IN  /\ result.len = Len(content)
            /\ op = "alloc_os_str_as_c_str" => Len(memory) = Len(content) + 1
            /\ op = "alloc_os_str_as_wide_str" =>
                  /\ Len(memory) >= Len(content) + 1
                  /\ Len(memory) = Len(content) + 1
                        <=> \A i \in 1..Len(content) : content[i] < 128

\* C5 witness: a wide allocation whose region is larger than the content
\* and its terminator
C5_Witness ==
    /\ op = "alloc_os_str_as_wide_str"
    /\ result.kind = "Ok"
    /\ Len(memory) > result.len + 1
    /\ memory[Len(memory)] = Undef

\* C6: overflow of the length computation is the only fatal path: an
\* allocating operation given a string that cannot be encoded returns
\* InvalidEncoding to its caller, and no call ends in another panic.
C6_OnlyOverflowIsFatal ==
    op \in AllocOps =>
        /\ result.kind \in {"Ok", "Unsupported", "MemoryError", "PanicOverflow"}
        /\ ~EncodedFor(op, os_str).ok => result = Unsupported

=============================================================================
